---- MODULE Spec2Model ----
(***************************************************************************)
(* A model of the SHL assessment recommender: the retrieval-ranking        *)
(* routine RAGRecommender.get_recommendations (src/src/core/recommender.py)*)
(* and its two callers, the /recommend and /health endpoints               *)
(* (src/src/api/main.py) and the batch scorer (src/run_predictions.py).    *)
(*                                                                         *)
(* Python values are modelled as follows.  A str on which the code does    *)
(* character work (test_type: substring test, split, strip, join) is a     *)
(* sequence of one-character strings; a str the code only copies or        *)
(* compares (url, name, description, ...) is a TLA+ string.  A dict held   *)
(* by reference is an index into the list the search returned (the heap),  *)
(* so that the in-place assignment of recommender.py:154 is visible.       *)
(* The external services (Gemini, ChromaDB, the embedding model) are       *)
(* inputs: each call draws the classifier's reply and the search's result  *)
(* from bounded sets.                                                      *)
(***************************************************************************)
EXTENDS Integers, Sequences, FiniteSets, TLC

(***************************************************************************)
(* Bounds of the model.                                                    *)
(***************************************************************************)
\* longest list of candidates a search returns to the API or a direct call
MaxCands == 2
\* longest list of codes in a classifier reply
MaxReply == 2
\* largest max_results of a direct call, besides the default
MaxLimit == 2
\* longest list of candidates a search returns to the batch scorer
MaxBatchCands == 1
\* longest list of codes in a classifier reply to the batch scorer
MaxBatchReply == 1
\* number of queries in the batch scorer's test set
MaxQueries == 2

(***************************************************************************)
(* Program constants.                                                      *)
(***************************************************************************)
\* get_recommendations(self, query, max_results: int = 10)
DefaultMaxResults == 10
\* collection.query(..., n_results=30)
NResults == 30

(***************************************************************************)
(* The category names, as character sequences.                             *)
(***************************************************************************)
\* "Ability & Aptitude"
Name_A ==
    <<"A","b","i","l","i","t","y"," ","&"," ","A","p","t","i","t","u","d","e">>

\* "Biodata & Situational Judgement"
Name_B ==
    <<"B","i","o","d","a","t","a"," ","&"," ","S","i","t","u","a","t","i","o","n","a","l"," ","J","u","d","g","e","m","e","n","t">>

\* "Competencies"
Name_C ==
    <<"C","o","m","p","e","t","e","n","c","i","e","s">>

\* "Development & 360"
Name_D ==
    <<"D","e","v","e","l","o","p","m","e","n","t"," ","&"," ","3","6","0">>

\* "Assessment Exercises"
Name_E ==
    <<"A","s","s","e","s","s","m","e","n","t"," ","E","x","e","r","c","i","s","e","s">>

\* "Knowledge & Skills"
Name_K ==
    <<"K","n","o","w","l","e","d","g","e"," ","&"," ","S","k","i","l","l","s">>

\* "Personality & Behavior"
Name_P ==
    <<"P","e","r","s","o","n","a","l","i","t","y"," ","&"," ","B","e","h","a","v","i","o","r">>

\* "Simulations"
Name_S ==
    <<"S","i","m","u","l","a","t","i","o","n","s">>

\* TEST_TYPE_MAP: category code -> category name
TEST_TYPE_MAP ==
    [A |-> Name_A, B |-> Name_B, C |-> Name_C, D |-> Name_D,
     E |-> Name_E, K |-> Name_K, P |-> Name_P, S |-> Name_S]

(***************************************************************************)
(* Python str operations on character sequences.                           *)
(***************************************************************************)
\* the characters str.strip() removes
Whitespace == {" ", "\t", "\n", "\r"}

\* `t in s` for two str: t occurs in s as a substring
Contains(s, t) ==
    \E i \in 1..(Len(s) - Len(t) + 1) : SubSeq(s, i, i + Len(t) - 1) = t

\* sep.join(list)
RECURSIVE Join(_, _)
Join(sep, list) ==
    IF list = <<>> THEN <<>>
    ELSE IF Len(list) = 1 THEN list[1]
    ELSE list[1] \o sep \o Join(sep, Tail(list))

\* s.split(ch) for a one-character separator: never empty, "" gives [""]
RECURSIVE Split(_, _)
Split(s, ch) ==
    IF \A i \in 1..Len(s) : s[i] # ch THEN <<s>>
    ELSE LET k == CHOOSE i \in 1..Len(s) :
                      s[i] = ch /\ \A j \in 1..(i - 1) : s[j] # ch
         IN  <<SubSeq(s, 1, k - 1)>> \o Split(SubSeq(s, k + 1, Len(s)), ch)

\* s.strip()
Strip(s) ==
    LET keep == {i \in 1..Len(s) : s[i] \notin Whitespace}
    IN  IF keep = {} THEN <<>>
        ELSE LET lo == CHOOSE i \in keep : \A j \in keep : i <= j
                 hi == CHOOSE i \in keep : \A j \in keep : j <= i
             IN  SubSeq(s, lo, hi)

(***************************************************************************)
(* Dynamically typed values: meta['test_type'] is a str when the search    *)
(* returns it and a list of str after recommender.py:154.                  *)
(***************************************************************************)
PyStr(s) == [ty |-> "str", s |-> s, l |-> <<>>]
PyList(l) == [ty |-> "list", s |-> <<>>, l |-> l]

\* an element of the list json.loads returns: a str, or an unhashable value
\* (a nested list or object)
Code(c) == [t |-> "str", v |-> c]
Unhashable == [t |-> "arr", v |-> ""]

(***************************************************************************)
(* Ingestion: the metadata record the embedder stores for a catalog row.   *)
(***************************************************************************)
\* ", "
CommaSpace == <<",", " ">>

\* create_document_chunks: one metadata record per row, test_type joined
\* into one str.  The crawler leaves duration unset, so it is stored as -1.
CreateMetadata(row) ==
    [name             |-> "name",
     url              |-> row.url,
     description      |-> row.description,
     test_type        |-> PyStr(Join(CommaSpace, row.test_type)),
     duration         |-> -1,
     adaptive_support |-> "No",
     remote_support   |-> "No"]

(***************************************************************************)
(* Category inference.                                                     *)
(***************************************************************************)
\* the reply of a classifier that was not asked
NoReply == [kind |-> "not_called", elems |-> <<>>]

\* _analyze_query_with_llm.  reply.kind is what became of the request:
\*   "raises"      generate_content (or response.text) raised
\*   "unparseable" json.loads raised on the cleaned text
\*   "nonlist"     json.loads returned a value that is not a list
\*   "list"        json.loads returned the list reply.elems
\* The cleaning of the text (strip, removal of "`" and "json") and the JSON
\* grammar are the library's; the reply is given by what json.loads made of it.
AnalyzeQueryWithLlm(llm_configured, reply) ==
    IF ~llm_configured THEN <<Code("K"), Code("P"), Code("A")>>
    ELSE IF reply.kind = "list" THEN reply.elems
    ELSE <<Code("K"), Code("P")>>

\* recommender.py:113, the list comprehension over required_type_keys:
\* TEST_TYPE_MAP.get(key) raises TypeError on an unhashable key and gives
\* None, which is dropped, on a key that is not in the map
RECURSIVE NamesOfKeys(_)
NamesOfKeys(keys) ==
    IF keys = <<>> THEN <<>>
    ELSE LET key == Head(keys)
         IN  (IF key.v \in DOMAIN TEST_TYPE_MAP
                 THEN <<TEST_TYPE_MAP[key.v]>> ELSE <<>>)
             \o NamesOfKeys(Tail(keys))

RequiredTypeNames(keys) ==
    IF \E i \in 1..Len(keys) : keys[i].t # "str"
    THEN [exc |-> "TypeError", names |-> <<>>]
    ELSE [exc |-> "", names |-> NamesOfKeys(keys)]

(***************************************************************************)
(* Bucketing.                                                              *)
(***************************************************************************)
\* the keys of {name: [] for name in required_type_names}: a dict keeps
\* each key once, in the order of first insertion
RECURSIVE DictKeys(_, _)
DictKeys(names, seen) ==
    IF names = <<>> THEN <<>>
    ELSE IF Head(names) \in seen THEN DictKeys(Tail(names), seen)
    ELSE <<Head(names)>> \o DictKeys(Tail(names), seen \cup {Head(names)})

\* recommender.py:140, `type_name in meta['test_type']` on a str
TypeMatches(type_name, meta) == Contains(meta.test_type.s, type_name)

\* the position of the last name the candidate matches, 0 if none
LastMatch(meta, names) ==
    IF \E i \in 1..Len(names) : TypeMatches(names[i], meta)
    THEN CHOOSE i \in 1..Len(names) :
             /\ TypeMatches(names[i], meta)
             /\ \A j \in (i + 1)..Len(names) : ~TypeMatches(names[j], meta)
    ELSE 0

\* the position of the first name of the candidate's own comma-separated
\* list that is one of names, 0 if none
FirstMatchOwnOrder(meta, names) ==
    LET parts == Split(meta.test_type.s, ",")
        own   == [j \in 1..Len(parts) |-> Strip(parts[j])]
        hits  == {j \in 1..Len(own) : \E i \in 1..Len(names) : names[i] = own[j]}
    IN  IF hits = {} THEN 0
        ELSE LET j == CHOOSE x \in hits : \A y \in hits : x <= y
             IN  CHOOSE i \in 1..Len(names) :
                     /\ names[i] = own[j]
                     /\ \A i0 \in 1..(i - 1) : names[i0] # own[j]

\* the inner loop of recommender.py:138-142: the position in
\* required_type_names of the first name the candidate matches, 0 if none
FirstMatch(meta, names) ==
    IF \E i \in 1..Len(names) : TypeMatches(names[i], meta)
    THEN CHOOSE i \in 1..Len(names) :
             /\ TypeMatches(names[i], meta)
             /\ \A j \in 1..(i - 1) : ~TypeMatches(names[j], meta)
    ELSE 0

AppendToBucketFront(items, ref) == <<ref>> \o items

\* ranked_lists[type_name].append(meta)
AppendToBucket(items, ref) == Append(items, ref)

\* the outer loop of recommender.py:137-142 for one bucket: the references
\* (positions in the search result) of the candidates appended to it
RECURSIVE BucketItems(_, _, _, _)
BucketItems(metas, names, name, i) ==
    IF i = 0 THEN <<>>
    ELSE LET rest == BucketItems(metas, names, name, i - 1)
             m    == FirstMatch(metas[i], names)
         IN  IF m # 0 /\ names[m] = name THEN AppendToBucket(rest, i)
             ELSE rest

\* ranked_lists after the loop, as the dict's (key, value) pairs in order
RankedLists(metas, names) ==
    LET keys == DictKeys(names, {})
    IN  [b \in 1..Len(keys) |->
            [name |-> keys[b], items |-> BucketItems(metas, names, keys[b], Len(metas))]]

(***************************************************************************)
(* Interleaving.                                                           *)
(***************************************************************************)
\* max(len(l) for l in lists), for a non-empty lists
RECURSIVE MaxLen(_)
MaxLen(lists) ==
    IF Len(lists) = 1 THEN Len(lists[1])
    ELSE LET m == MaxLen(Tail(lists))
         IN  IF Len(lists[1]) > m THEN Len(lists[1]) ELSE m

\* the inner loop `for l in lists` of round i, from bucket b on
RECURSIVE InterleaveRound(_, _, _)
InterleaveRound(lists, i, b) ==
    IF b > Len(lists) THEN <<>>
    ELSE (IF i <= Len(lists[b]) THEN <<lists[b][i]>> ELSE <<>>)
         \o InterleaveRound(lists, i, b + 1)

\* the outer loop `for i in range(max_len)`, from round i on
RECURSIVE InterleaveFrom(_, _, _)
InterleaveFrom(lists, i, max_len) ==
    IF i > max_len THEN <<>>
    ELSE InterleaveRound(lists, i, 1) \o InterleaveFrom(lists, i + 1, max_len)

\* _interleave_lists(*lists): max() of no lists raises ValueError
InterleaveLists(lists) ==
    IF lists = <<>> THEN [exc |-> "ValueError", value |-> <<>>]
    ELSE [exc |-> "", value |-> InterleaveFrom(lists, 1, MaxLen(lists))]

(***************************************************************************)
(* De-duplication, normalisation and truncation.                           *)
(***************************************************************************)
SplitTestTypeNoStrip(s) == Split(s, ",")

\* [t.strip() for t in meta['test_type'].split(',')]
SplitTestType(s) ==
    LET parts == Split(s, ",")
    IN  [i \in 1..Len(parts) |-> Strip(parts[i])]

AlreadySeenNever(url, seen_urls) == FALSE

\* recommender.py:152, the negation of `meta['url'] not in seen_urls`
AlreadySeen(url, seen_urls) == url \in seen_urls

PrependRecommendation(recs, ref) == <<ref>> \o recs

\* final_recommendations.append(meta)
AppendRecommendation(recs, ref) == Append(recs, ref)

\* the loop of recommender.py:151-161 from position k of final_list on.
\* st.heap is the search's list of dicts, which line 154 assigns into.
RECURSIVE DedupLoop(_, _, _, _)
DedupLoop(final_list, k, max_results, st) ==
    IF k > Len(final_list) THEN st
    ELSE LET ref  == final_list[k]
             meta == st.heap[ref]
             st2  == IF ~AlreadySeen(meta.url, st.seen_urls)
                     THEN [heap |-> [st.heap EXCEPT ![ref].test_type =
                                        PyList(SplitTestType(meta.test_type.s))],
                           final_recommendations |->
                               AppendRecommendation(st.final_recommendations, ref),
                           seen_urls |-> st.seen_urls \cup {meta.url}]
                     ELSE st
         IN  IF Len(st2.final_recommendations) >= max_results THEN st2
             ELSE DedupLoop(final_list, k + 1, max_results, st2)

(***************************************************************************)
(* get_recommendations.                                                    *)
(***************************************************************************)
\* the result of a search that was not asked for
NoSearch == [kind |-> "not_called", metas |-> <<>>]

\* the record of one execution of get_recommendations: its inputs, the
\* values of its local variables and what it returned or raised
NoCall ==
    [stage                 |-> "none",
     outcome               |-> "none",
     exc                   |-> "",
     value                 |-> <<>>,
     reply                 |-> NoReply,
     search                |-> NoSearch,
     max_results           |-> 0,
     required_type_keys    |-> <<>>,
     required_type_names   |-> <<>>,
     ranked_lists          |-> <<>>,
     final_list            |-> <<>>,
     final_recommendations |-> <<>>,
     heap                  |-> <<>>]

\* recommender.py:108
NotInitialized == [error |-> "Recommender not initialized"]

\* get_recommendations(query, max_results) on a recommender whose attributes
\* are client and embed_model (TRUE: loaded, FALSE: None), with the
\* classifier answering reply and the search answering search.
\* search.kind: "raises" (collection.query raised), "empty" (a falsy
\* 'metadatas'), "ok" ('metadatas' == [search.metas]).
\* embed_model.encode(query) is taken to return; its vector is used only as
\* the argument of the search.
GetRecommendations(client_loaded, embed_loaded, llm_configured, reply, search, limit) ==
    LET base == [NoCall EXCEPT !.max_results = limit]
    IN
    IF ~client_loaded \/ ~embed_loaded
    THEN [base EXCEPT !.stage = "uninitialized", !.outcome = "list",
                      !.value = <<NotInitialized>>]
    ELSE
    LET keys  == AnalyzeQueryWithLlm(llm_configured, reply)
        rn    == RequiredTypeNames(keys)
        c1    == [base EXCEPT !.reply = reply, !.required_type_keys = keys]
    IN
    IF rn.exc # ""
    THEN [c1 EXCEPT !.stage = "keys_error", !.outcome = "raised", !.exc = rn.exc]
    ELSE
    LET c2 == [c1 EXCEPT !.required_type_names = rn.names, !.search = search]
    IN
    IF search.kind = "raises"
    THEN [c2 EXCEPT !.stage = "search_error", !.outcome = "list"]
    ELSE IF search.kind = "empty"
    THEN [c2 EXCEPT !.stage = "no_metadatas", !.outcome = "list"]
    ELSE
    LET ranked == RankedLists(search.metas, rn.names)
        il     == InterleaveLists([b \in 1..Len(ranked) |-> ranked[b].items])
        c3     == [c2 EXCEPT !.ranked_lists = ranked, !.heap = search.metas]
    IN
    IF il.exc # ""
    THEN [c3 EXCEPT !.stage = "interleave_error", !.outcome = "raised",
                    !.exc = il.exc]
    ELSE
    LET st == DedupLoop(il.value, 1, limit,
                        [heap |-> search.metas,
                         final_recommendations |-> <<>>,
                         seen_urls |-> {}])
    IN  [c3 EXCEPT !.stage = "finished", !.outcome = "list",
                   !.final_list = il.value,
                   !.final_recommendations = st.final_recommendations,
                   !.heap = st.heap,
                   !.value = [i \in 1..Len(st.final_recommendations) |->
                                 st.heap[st.final_recommendations[i]]]]

RecommenderAfterSearchFailureReset(attrs, c) ==
    IF c.stage = "search_error"
    THEN [attrs EXCEPT !.client = FALSE] ELSE attrs

\* the recommender's attributes after a call: get_recommendations assigns
\* to no attribute of self and to no module-level name
RecommenderAfter(attrs, c) == attrs

(***************************************************************************)
(* The inputs a call can meet.                                             *)
(***************************************************************************)
SeqsUpTo(S, n) == UNION {[1..k -> S] : k \in 0..n}

Urls == {"u1", "u2"}

\* the test_type lists of the catalog rows
TypeLists == {<<Name_K>>, <<Name_P>>, <<Name_K, Name_P>>}

\* the letters a classifier reply is made of; "X" is no category code
ReplyCodes == {"K", "P", "X"}

\* what the classifier can answer, with lists of at most maxr codes
Replies(maxr) ==
    {[kind |-> k, elems |-> <<>>] : k \in {"raises", "unparseable", "nonlist"}}
    \cup {[kind |-> "list", elems |-> [i \in DOMAIN cs |-> Code(cs[i])]] :
              cs \in SeqsUpTo(ReplyCodes, maxr)}
    \cup {[kind |-> "list", elems |-> <<Unhashable>>]}

\* what the search can answer, with at most maxc candidates: the i-th most
\* similar entry of the index is the metadata of a catalog row, and the
\* rows differ in their descriptions
Searches(maxc) ==
    {[kind |-> k, metas |-> <<>>] : k \in {"raises", "empty"}}
    \cup {[kind |-> "ok",
           metas |-> [i \in DOMAIN rows |->
                         CreateMetadata([url |-> rows[i][1],
                                         test_type |-> rows[i][2],
                                         description |-> ToString(i)])]] :
              rows \in SeqsUpTo(Urls \X TypeLists,
                                IF maxc < NResults THEN maxc ELSE NResults)}

\* the classifier is asked only by an initialized recommender with an llm
RepliesMet(client_loaded, embed_loaded, llm_configured, maxr) ==
    IF client_loaded /\ embed_loaded /\ llm_configured
    THEN Replies(maxr) ELSE {NoReply}

\* the search is asked only when line 113 has not raised
SearchesMet(client_loaded, embed_loaded, llm_configured, reply, maxc) ==
    IF /\ client_loaded /\ embed_loaded
       /\ RequiredTypeNames(AnalyzeQueryWithLlm(llm_configured, reply)).exc = ""
    THEN Searches(maxc) ELSE {NoSearch}

(***************************************************************************)
(* The state.                                                              *)
(***************************************************************************)
VARIABLES
    program,          \* which program runs: "api", "direct" (a caller of
                      \* get_recommendations with its own max_results), "batch"
    pc,               \* "boot", "idle", "done", "crashed", "exited"
    llm,              \* recommender.llm: TRUE configured, FALSE None
    client,           \* self.client: TRUE loaded, FALSE None
    collection,       \* self.collection: "unset" (never assigned) or "set"
    embed_model,      \* self.embed_model: TRUE loaded, FALSE None
    init_outcome,     \* what happened in RAGRecommender.__init__
    recommender,      \* main.py's global: "object" or "None"
    call,             \* the last execution of get_recommendations
    response,         \* the last answer of /recommend
    health,           \* the last answer of /health
    qi,               \* run_predictions: number of queries looped over
    submission_rows,  \* run_predictions: the rows collected so far
    saved,            \* run_predictions: the rows written to predictions.csv
    failed_queries    \* run_predictions, history: the queries whose search raised

vars ==
    <<program, pc, llm, client, collection, embed_model, init_outcome,
      recommender, call, response, health, qi, submission_rows, saved,
      failed_queries>>

NoResponse == [status |-> 0, detail |-> "", recommended_assessments |-> <<>>]

Init ==
    /\ program = "none"
    /\ pc = "boot"
    /\ llm = FALSE
    /\ client = FALSE
    /\ collection = "unset"
    /\ embed_model = FALSE
    /\ init_outcome = "none"
    /\ recommender = "None"
    /\ call = NoCall
    /\ response = NoResponse
    /\ health = NoResponse
    /\ qi = 0
    /\ submission_rows = <<>>
    /\ saved = <<>>
    /\ failed_queries = {}

Attrs ==
    [client |-> client, collection |-> collection,
     embed_model |-> embed_model, llm |-> llm]

SetAttrs(a) ==
    /\ client' = a.client
    /\ collection' = a.collection
    /\ embed_model' = a.embed_model
    /\ llm' = a.llm

(***************************************************************************)
(* Start-up.                                                               *)
(***************************************************************************)
\* RAGRecommender.__init__: the three loads in order; any exception is
\* caught and leaves client and embed_model None
InitOutcomes == {"ok", "client_fails", "collection_fails", "embed_fails"}

RAGRecommenderInit(o) ==
    [client      |-> (o = "ok"),
     collection  |-> IF o \in {"ok", "embed_fails"} THEN "set" ELSE "unset",
     embed_model |-> (o = "ok")]

\* import of recommender.py (the llm is configured or left None), then
\* RAGRecommender() as main.py:15-20 and run_predictions.py:27-31 call it:
\* the constructor catches its own exceptions, so the caller always gets an
\* object
Startup(p) ==
    /\ pc = "boot"
    /\ program' = p
    /\ \E l \in BOOLEAN, o \in InitOutcomes :
          /\ llm' = l
          /\ init_outcome' = o
          /\ client' = RAGRecommenderInit(o).client
          /\ collection' = RAGRecommenderInit(o).collection
          /\ embed_model' = RAGRecommenderInit(o).embed_model
    /\ recommender' = "object"
    /\ pc' = "idle"
    /\ UNCHANGED <<call, response, health, qi, submission_rows, saved,
                   failed_queries>>

(***************************************************************************)
(* The API.                                                                *)
(***************************************************************************)
NotLoaded ==
    [status |-> 500, detail |-> "Recommender model is not loaded",
     recommended_assessments |-> <<>>]

\* health_check
HealthResponse(r) ==
    IF r = "None" THEN NotLoaded
    ELSE [status |-> 200, detail |-> "healthy", recommended_assessments |-> <<>>]

HealthCheck ==
    /\ program = "api"
    /\ pc = "idle"
    /\ health' = HealthResponse(recommender)
    /\ pc' = "done"
    /\ UNCHANGED <<program, llm, client, collection, embed_model,
                   init_outcome, recommender, call, response, qi,
                   submission_rows, saved, failed_queries>>

\* AssessmentResponse(**meta): the seven fields are required and test_type
\* must be a list of str
AssessmentFields ==
    {"url", "name", "adaptive_support", "description", "duration",
     "remote_support", "test_type"}

ValidAssessment(meta) ==
    /\ AssessmentFields \subseteq DOMAIN meta
    /\ meta.test_type.ty = "list"

\* recommend_assessments, after get_recommendations has run as c
RecommendResponse(r, c) ==
    IF r = "None" THEN NotLoaded
    ELSE IF c.outcome = "raised"
    THEN [status |-> 500, detail |-> c.exc, recommended_assessments |-> <<>>]
    ELSE IF \E i \in 1..Len(c.value) : ~ValidAssessment(c.value[i])
    THEN [status |-> 500, detail |-> "ValidationError",
          recommended_assessments |-> <<>>]
    ELSE [status |-> 200, detail |-> "", recommended_assessments |-> c.value]

Recommend ==
    /\ program = "api"
    /\ pc = "idle"
    /\ \E reply \in RepliesMet(client, embed_model, llm, MaxReply) :
       \E search \in SearchesMet(client, embed_model, llm, reply, MaxCands) :
          LET c == IF recommender = "None" THEN NoCall
                   ELSE GetRecommendations(client, embed_model, llm, reply,
                                           search, DefaultMaxResults)
          IN  /\ call' = c
              /\ response' = RecommendResponse(recommender, c)
              /\ SetAttrs(RecommenderAfter(Attrs, c))
    /\ pc' = "done"
    /\ UNCHANGED <<program, init_outcome, recommender, health, qi,
                   submission_rows, saved, failed_queries>>

(***************************************************************************)
(* A direct call of get_recommendations with a max_results of its own.     *)
(***************************************************************************)
Limits == (0..MaxLimit) \cup {DefaultMaxResults}

Call ==
    /\ program = "direct"
    /\ pc = "idle"
    /\ \E limit \in Limits :
       \E reply \in RepliesMet(client, embed_model, llm, MaxReply) :
       \E search \in SearchesMet(client, embed_model, llm, reply, MaxCands) :
          LET c == GetRecommendations(client, embed_model, llm, reply,
                                      search, limit)
          IN  /\ call' = c
              /\ SetAttrs(RecommenderAfter(Attrs, c))
    /\ pc' = "done"
    /\ UNCHANGED <<program, init_outcome, recommender, response, health, qi,
                   submission_rows, saved, failed_queries>>

\* the caller is done with the last answer and turns to the next query: the
\* API waits for the next request, the batch scorer's loop takes its next
\* query
NextQuery ==
    /\ pc = "done"
    /\ pc' = "idle"
    /\ call' = NoCall
    /\ response' = NoResponse
    /\ health' = NoResponse
    /\ UNCHANGED <<program, llm, client, collection, embed_model,
                   init_outcome, recommender, qi, submission_rows, saved,
                   failed_queries>>

(***************************************************************************)
(* The batch scorer.                                                       *)
(***************************************************************************)
\* the loop `for rec in recommendations` of run_predictions.py:49-53:
\* rec['url'] raises KeyError on a record without url
RECURSIVE RowsOf(_, _)
RowsOf(q, recs) ==
    IF recs = <<>> THEN [exc |-> "", rows |-> <<>>]
    ELSE IF "url" \notin DOMAIN Head(recs) THEN [exc |-> "KeyError", rows |-> <<>>]
    ELSE LET rest == RowsOf(q, Tail(recs))
         IN  [exc  |-> rest.exc,
              rows |-> <<[Query |-> q, Assessment_url |-> Head(recs).url]>>
                       \o rest.rows]

\* one turn of the loop `for query in queries`, run_predictions.py:40-53
BatchQuery ==
    /\ program = "batch"
    /\ pc = "idle"
    /\ qi < MaxQueries
    /\ \E reply \in RepliesMet(client, embed_model, llm, MaxBatchReply) :
       \E search \in SearchesMet(client, embed_model, llm, reply, MaxBatchCands) :
          LET c == GetRecommendations(client, embed_model, llm, reply,
                                      search, DefaultMaxResults)
              r == RowsOf(qi + 1, c.value)
          IN  /\ call' = c
              /\ SetAttrs(RecommenderAfter(Attrs, c))
              /\ IF c.outcome = "raised" \/ r.exc # ""
                 THEN /\ pc' = "crashed"
                      /\ UNCHANGED <<qi, submission_rows, failed_queries>>
                 ELSE /\ pc' = "done"
                      /\ qi' = qi + 1
                      /\ submission_rows' = submission_rows \o r.rows
                      /\ failed_queries' =
                            IF c.stage = "search_error"
                            THEN failed_queries \cup {qi + 1}
                            ELSE failed_queries
    /\ UNCHANGED <<program, init_outcome, recommender, response, health,
                   saved>>

\* run_predictions.py:55-67, after the loop
BatchFinish ==
    /\ program = "batch"
    /\ pc = "idle"
    /\ qi = MaxQueries
    /\ saved' = submission_rows
    /\ pc' = "exited"
    /\ UNCHANGED <<program, llm, client, collection, embed_model,
                   init_outcome, recommender, call, response, health, qi,
                   submission_rows, failed_queries>>

(***************************************************************************)
(* The specifications: the API and direct callers, and the batch scorer.   *)
(***************************************************************************)
Next ==
    \/ \E p \in {"api", "direct"} : Startup(p)
    \/ HealthCheck
    \/ Recommend
    \/ Call
    \/ NextQuery

Spec == Init /\ [][Next]_vars

NextBatch ==
    \/ Startup("batch")
    \/ BatchQuery
    \/ NextQuery
    \/ BatchFinish

SpecBatch == Init /\ [][NextBatch]_vars

(***************************************************************************)
(* _interleave_lists on its own: the buckets are drawn from the bounded    *)
(* set below and the one action applies the function to them.              *)
(***************************************************************************)
\* most buckets passed to _interleave_lists
MaxBuckets == 3
\* longest bucket passed to _interleave_lists
MaxBucketLen == 3

\* bucket b holds sizes[b] distinct references, numbered bucket by bucket
BucketsOfSizes(sizes) ==
    [b \in 1..Len(sizes) |->
        [name  |-> b,
         items |-> [i \in 1..sizes[b] |-> (b - 1) * (MaxBucketLen + 1) + i]]]

InitInterleave ==
    /\ program = "interleave"
    /\ pc = "idle"
    /\ llm = FALSE
    /\ client = FALSE
    /\ collection = "unset"
    /\ embed_model = FALSE
    /\ init_outcome = "none"
    /\ recommender = "None"
    /\ \E sizes \in SeqsUpTo(0..MaxBucketLen, MaxBuckets) :
          call = [NoCall EXCEPT !.ranked_lists = BucketsOfSizes(sizes)]
    /\ response = NoResponse
    /\ health = NoResponse
    /\ qi = 0
    /\ submission_rows = <<>>
    /\ saved = <<>>
    /\ failed_queries = {}

\* final_list = self._interleave_lists(*ranked_lists.values())
Interleave ==
    /\ program = "interleave"
    /\ pc = "idle"
    /\ LET il == InterleaveLists([b \in 1..Len(call.ranked_lists) |->
                                     call.ranked_lists[b].items])
       IN  call' = [call EXCEPT
                       !.stage = IF il.exc # "" THEN "interleave_error"
                                 ELSE "interleaved",
                       !.outcome = IF il.exc # "" THEN "raised" ELSE "none",
                       !.exc = il.exc,
                       !.final_list = il.value]
    /\ pc' = "done"
    /\ UNCHANGED <<program, llm, client, collection, embed_model,
                   init_outcome, recommender, response, health, qi,
                   submission_rows, saved, failed_queries>>

SpecInterleave == InitInterleave /\ [][Interleave]_vars

(***************************************************************************)
(* The test_type of a catalog row on its way through the index: joined by  *)
(* the embedder, split and stripped by the recommender.  Besides the       *)
(* serving of queries, the normalisation of recommender.py:154 is applied  *)
(* on its own to the metadata of any row of the bounded set below.         *)
(***************************************************************************)
\* most names in the test_type of a catalog row
MaxTypes == 2

\* "K": the key itself, which the crawler keeps when its key map lacks it
KeyOnly == <<"K">>

\* " Knowledge & Skills": a name with a leading blank
PaddedName == <<" ">> \o Name_K

\* "a,b": a name with a comma
CommaName == <<"a", ",", "b">>

\* the names a row's test_type is made of; <<>> is the empty str
RowTypeNames ==
    {Name_K, Name_P, Name_S, <<>>, KeyOnly, PaddedName, CommaName}

RowTypeLists == SeqsUpTo(RowTypeNames, MaxTypes)

\* the index holds the metadata the embedder made of one catalog row
InitRoundTrip ==
    /\ program = "normalize"
    /\ pc = "idle"
    /\ llm = FALSE
    /\ client = FALSE
    /\ collection = "unset"
    /\ embed_model = FALSE
    /\ init_outcome = "none"
    /\ recommender = "None"
    /\ \E list \in RowTypeLists :
          LET meta == CreateMetadata([url |-> "u1", test_type |-> list,
                                      description |-> ToString(1)])
          IN  call = [NoCall EXCEPT
                         !.search = [kind |-> "ok", metas |-> <<meta>>],
                         !.heap = <<meta>>]
    /\ response = NoResponse
    /\ health = NoResponse
    /\ qi = 0
    /\ submission_rows = <<>>
    /\ saved = <<>>
    /\ failed_queries = {}

\* meta['test_type'] = [t.strip() for t in meta['test_type'].split(',')]
Normalize ==
    /\ program = "normalize"
    /\ pc = "idle"
    /\ call' = [call EXCEPT
                   !.stage = "normalized",
                   !.heap[1].test_type =
                       PyList(SplitTestType(call.heap[1].test_type.s))]
    /\ pc' = "normalized"
    /\ UNCHANGED <<program, llm, client, collection, embed_model,
                   init_outcome, recommender, response, health, qi,
                   submission_rows, saved, failed_queries>>

InitTestType == Init \/ InitRoundTrip

NextTestType == Next \/ Normalize

SpecTestType == InitTestType /\ [][NextTestType]_vars

(***************************************************************************)
(* Properties.                                                             *)
(***************************************************************************)
Range(f) == {f[x] : x \in DOMAIN f}

Min(a, b) == IF a <= b THEN a ELSE b

\* get_recommendations has run (and returned or raised)
Called == call.stage # "none"

\* the call asked the classifier, or found the llm unconfigured
Inferred == call.stage \notin {"none", "uninitialized"}

\* the call reached the bucketing and interleaving steps
Ranked == call.stage \in {"interleave_error", "finished"}

\* the call ran the de-duplication loop and returned its list
Finished == call.stage = "finished"

ValidCode(e) == e.t = "str" /\ e.v \in DOMAIN TEST_TYPE_MAP

\* the configured default sets of category codes
DefaultKeys ==
    {<<Code("K"), Code("P")>>, <<Code("K"), Code("P"), Code("A")>>}

\* the classifier gave no usable answer: it was unconfigured, raised, sent
\* unparseable text or a non-list, or sent an empty list or an invalid code
NeedsFallback(reply) ==
    \/ reply.kind # "list"
    \/ reply.elems = <<>>
    \/ \E i \in 1..Len(reply.elems) : ~ValidCode(reply.elems[i])

\* C1: category inference always yields a non-empty sequence of category
\* codes, and yields the configured default whenever the classifier is
\* unconfigured, raises, or replies with unparseable text, a non-list, an
\* empty list or invalid codes.
C1_InferenceNonEmptyDefault ==
    Inferred =>
        /\ call.required_type_keys # <<>>
        /\ \A i \in 1..Len(call.required_type_keys) :
               ValidCode(call.required_type_keys[i])
        /\ NeedsFallback(call.reply) => call.required_type_keys \in DefaultKeys

\* a complete record: exactly the seven fields, test_type a list of str
WellFormedRecord(r) ==
    /\ DOMAIN r = AssessmentFields
    /\ r.test_type.ty = "list"

\* C2: every call of get_recommendations ends with a well-formed (possibly
\* empty) list of complete records or the explicit not-initialized signal;
\* no exception escapes it, the batch scorer does not crash on what it is
\* handed, and /recommend answers 200 with complete records or an error
\* status.
C2_WellFormedListOrSignal ==
    /\ Called =>
          /\ call.outcome = "list"
          /\ \/ call.value = <<NotInitialized>>
             \/ \A i \in 1..Len(call.value) : WellFormedRecord(call.value[i])
    /\ pc # "crashed"
    /\ response.status # 0 =>
          \/ response.status = 500
          \/ /\ response.status = 200
             /\ \A i \in 1..Len(response.recommended_assessments) :
                    WellFormedRecord(response.recommended_assessments[i])

\* the distinct urls of the interleaved sequence
DistinctUrls(c) ==
    {c.search.metas[c.final_list[k]].url : k \in 1..Len(c.final_list)}

\* C3: for every interleaved sequence and every limit >= 0 the
\* de-duplication/truncation step returns exactly
\* min(limit, number of distinct urls) items.
C3_ExactlyMinLimitDistinct ==
    (Finished /\ call.max_results >= 0) =>
        Len(call.value) = Min(call.max_results, Cardinality(DistinctUrls(call)))

\* C4: no two items of a list returned by get_recommendations have the same
\* url.
C4_NoDuplicateUrls ==
    (Called /\ call.outcome = "list") =>
        \A i, j \in 1..Len(call.value) :
            (/\ i # j
             /\ "url" \in DOMAIN call.value[i]
             /\ "url" \in DOMAIN call.value[j])
            => call.value[i].url # call.value[j].url

\* C4 witness: the interleaved sequence repeats a url and a list came back
C4_Witness ==
    /\ Finished
    /\ call.value # <<>>
    /\ \E k1, k2 \in 1..Len(call.final_list) :
          /\ k1 < k2
          /\ call.search.metas[call.final_list[k1]].url
                 = call.search.metas[call.final_list[k2]].url

\* the candidates (positions in the search result) that share a bucket
SameBucket(c, i, j) ==
    \E b \in 1..Len(c.ranked_lists) :
        {i, j} \subseteq Range(c.ranked_lists[b].items)

InSomeBucket(c, i) ==
    \E b \in 1..Len(c.ranked_lists) : i \in Range(c.ranked_lists[b].items)

\* C5 (as claimed): of two bucketed candidates with the same url, the
\* lower-ranked one never is in the output, whatever their buckets.
C5_HigherRankSurvives ==
    Finished =>
        \A i, j \in 1..Len(call.search.metas) :
            (/\ i < j
             /\ call.search.metas[i].url = call.search.metas[j].url
             /\ InSomeBucket(call, i)
             /\ InSomeBucket(call, j))
            => j \notin Range(call.final_recommendations)

\* C5 (amended): of the candidates with one url, the only one that can be in
\* the output is the one that comes first in the interleaved sequence; when
\* two of them are in the same bucket, the lower-ranked one never is in the
\* output.
C5_FirstInterleavedSurvives ==
    Finished =>
        /\ \A k \in 1..Len(call.final_list) :
               call.final_list[k] \in Range(call.final_recommendations)
               => \A k0 \in 1..(k - 1) :
                      call.search.metas[call.final_list[k0]].url
                          # call.search.metas[call.final_list[k]].url
        /\ \A i, j \in 1..Len(call.search.metas) :
               (/\ i < j
                /\ call.search.metas[i].url = call.search.metas[j].url
                /\ SameBucket(call, i, j))
               => j \notin Range(call.final_recommendations)

\* C5 witness: two bucketed candidates share a url and one of them is in the
\* output
C5_Witness ==
    /\ Finished
    /\ \E i, j \in 1..Len(call.search.metas) :
          /\ i < j
          /\ call.search.metas[i].url = call.search.metas[j].url
          /\ InSomeBucket(call, i)
          /\ InSomeBucket(call, j)
          /\ {i, j} \cap Range(call.final_recommendations) # {}

\* C6: after a failed initialization the service is not ready in every
\* later state: /health does not answer "healthy" and /recommend does not
\* answer 200.
C6_NotReadyAfterFailedInit ==
    init_outcome \in InitOutcomes \ {"ok"} =>
        /\ health.detail # "healthy"
        /\ response.status # 200

\* the recommender's attributes
SelfAttrs ==
    [client |-> client, collection |-> collection, embed_model |-> embed_model]

IsPrefix(a, b) == Len(a) <= Len(b) /\ SubSeq(b, 1, Len(a)) = a

\* after a search that raised: the call returned the empty list, the
\* recommender is as its constructor left it, the failed queries have no
\* rows, and the last call's result is what a freshly constructed
\* recommender gives for the same classifier reply and search result
SearchFailureContained ==
    /\ call.stage = "search_error" =>
          /\ call.outcome = "list"
          /\ call.value = <<>>
          /\ pc # "crashed"
    /\ pc # "boot" => SelfAttrs = RAGRecommenderInit(init_outcome)
    /\ \A k \in 1..Len(submission_rows) :
          submission_rows[k].Query \notin failed_queries
    /\ (pc = "done" /\ Called) =>
          call = GetRecommendations(RAGRecommenderInit(init_outcome).client,
                                    RAGRecommenderInit(init_outcome).embed_model,
                                    llm, call.reply, call.search,
                                    DefaultMaxResults)

\* a query of the batch leaves the recommender and the llm as they were and
\* keeps the rows of the earlier queries; a query whose search raised adds
\* no row and the loop goes on to the next query
QueryStepIsolated ==
    (pc = "idle" /\ pc' = "done") =>
        /\ <<client', collection', embed_model', llm'>>
               = <<client, collection, embed_model, llm>>
        /\ IsPrefix(submission_rows, submission_rows')
        /\ call'.stage = "search_error" =>
               /\ submission_rows' = submission_rows
               /\ qi' = qi + 1

\* C7: a search that raises makes get_recommendations return the empty list
\* for that query without raising, and the queries before and after it get
\* the results they get without the failure: the failure changes neither
\* the recommender nor the rows collected for the other queries.
C7_SearchFailureIsolated ==
    []SearchFailureContained /\ [][QueryStepIsolated]_vars

\* C7 witness: the first query's search raised, and the second query, asked
\* of the same recommender, has its results in the rows
C7_Witness ==
    /\ program = "batch"
    /\ pc = "done"
    /\ failed_queries = {1}
    /\ qi = 2
    /\ Finished
    /\ call.value # <<>>
    /\ submission_rows # <<>>

\* the buckets handed to _interleave_lists
BucketLists(c) == [b \in 1..Len(c.ranked_lists) |-> c.ranked_lists[b].items]

\* the places (bucket, index) of the elements of the buckets
Places(lists) ==
    UNION {{<<b, i>> : i \in 1..Len(lists[b])} : b \in 1..Len(lists)}

\* the position of element i of bucket b in a round-robin merge: after the
\* elements of lower index, and those of the same index in earlier buckets
RoundRobinPos(lists, b, i) ==
    1 + Cardinality({q \in Places(lists) :
                        q[2] < i \/ (q[2] = i /\ q[1] < b)})

IsRoundRobin(lists, out) ==
    /\ Len(out) = Cardinality(Places(lists))
    /\ \A q \in Places(lists) :
           out[RoundRobinPos(lists, q[1], q[2])] = lists[q[1]][q[2]]

\* _interleave_lists has run (and returned or raised)
Interleaved == call.stage \in {"interleave_error", "interleaved", "finished"}

\* C8: for any buckets, _interleave_lists returns their round-robin merge in
\* bucket order, every element of every bucket exactly once.
C8_InterleaveRoundRobin ==
    Interleaved =>
        /\ call.exc = ""
        /\ IsRoundRobin(BucketLists(call), call.final_list)

\* the same for one bucket or more, where max() has an argument
InterleaveRoundRobinOfBuckets ==
    (Interleaved /\ call.ranked_lists # <<>>) =>
        /\ call.exc = ""
        /\ IsRoundRobin(BucketLists(call), call.final_list)

\* buckets of sizes [3,1,2] give [X1,Y1,Z1,X2,Z2,X3]
InterleaveScenario ==
    (Interleaved /\ call.ranked_lists = BucketsOfSizes(<<3, 1, 2>>)) =>
        LET X == call.ranked_lists[1].items
            Y == call.ranked_lists[2].items
            Z == call.ranked_lists[3].items
        IN  call.final_list = <<X[1], Y[1], Z[1], X[2], Z[2], X[3]>>

\* C9: every item of the output has one of the inferred category names in
\* its test_type, and when no retrieved candidate matches an inferred
\* category the output is the empty list, not an error.
C9_CategoryHardFilter ==
    Ranked =>
        /\ call.outcome = "list"
        /\ \A i \in 1..Len(call.value) :
               Range(call.required_type_names)
                   \cap Range(call.value[i].test_type.l) # {}
        /\ (\A i \in 1..Len(call.search.metas) :
                Range(call.required_type_names)
                    \cap Range(SplitTestType(call.search.metas[i].test_type.s))
                    = {})
           => call.value = <<>>

\* C10: after a call the records the search returned are as the search
\* returned them, and the recommender's attributes are as before.
C10_NoMutationNoState ==
    /\ Finished => call.heap = call.search.metas
    /\ pc # "boot" => SelfAttrs = RAGRecommenderInit(init_outcome)

\* the position in the interleaved sequence of the first item with the url
FirstOccurrence(c, url) ==
    CHOOSE k \in 1..Len(c.final_list) :
        /\ c.search.metas[c.final_list[k]].url = url
        /\ \A k0 \in 1..(k - 1) : c.search.metas[c.final_list[k0]].url # url

\* C11: the de-duplication/truncation step preserves order: any two items of
\* the output are in the order in which their urls first occur in the
\* interleaved sequence.
C11_OrderPreserved ==
    Finished =>
        \A a, b \in 1..Len(call.value) :
            a < b => FirstOccurrence(call, call.value[a].url)
                         < FirstOccurrence(call, call.value[b].url)

\* C11 witness: an output of two items
C11_Witness ==
    /\ Finished
    /\ Len(call.value) >= 2

\* the category names of a candidate as the search returned it
OwnTypes(c, i) == SplitTestType(c.search.metas[i].test_type.s)

\* the positions in the inferred list of the names the candidate has
MatchedPositions(c, i) ==
    {k \in 1..Len(c.required_type_names) :
        c.required_type_names[k] \in Range(OwnTypes(c, i))}

\* the buckets (positions in ranked_lists) that hold the candidate
BucketsOf(c, i) ==
    {b \in 1..Len(c.ranked_lists) : i \in Range(c.ranked_lists[b].items)}

\* the first position of a name in the inferred list
FirstPosition(c, name) ==
    CHOOSE k \in 1..Len(c.required_type_names) :
        /\ c.required_type_names[k] = name
        /\ \A k0 \in 1..(k - 1) : c.required_type_names[k0] # name

\* C12: bucketing is first-match-wins in inferred-category order: one bucket
\* per inferred category name, in the inferred order; each candidate is in
\* the bucket of the earliest inferred category its test_type contains and
\* in no other bucket; each bucket keeps its items in similarity order.
C12_FirstMatchWins ==
    Ranked =>
        /\ {call.ranked_lists[b].name : b \in 1..Len(call.ranked_lists)}
               = Range(call.required_type_names)
        /\ \A b1, b2 \in 1..Len(call.ranked_lists) :
               b1 < b2 => FirstPosition(call, call.ranked_lists[b1].name)
                              < FirstPosition(call, call.ranked_lists[b2].name)
        /\ \A i \in 1..Len(call.search.metas) :
               IF MatchedPositions(call, i) = {}
               THEN BucketsOf(call, i) = {}
               ELSE \E b \in 1..Len(call.ranked_lists) :
                        /\ BucketsOf(call, i) = {b}
                        /\ \E k \in MatchedPositions(call, i) :
                               /\ \A k0 \in MatchedPositions(call, i) : k <= k0
                               /\ call.ranked_lists[b].name
                                      = call.required_type_names[k]
        /\ \A b \in 1..Len(call.ranked_lists) :
               \A x, y \in 1..Len(call.ranked_lists[b].items) :
                   x < y => call.ranked_lists[b].items[x]
                                < call.ranked_lists[b].items[y]

\* C12 witness: two buckets, and a candidate that has both their categories
\* is in one of them
C12_Witness ==
    /\ Ranked
    /\ Len(call.ranked_lists) >= 2
    /\ \E i \in 1..Len(call.search.metas) :
          /\ Cardinality(MatchedPositions(call, i)) >= 2
          /\ BucketsOf(call, i) # {}

\* the inferred category names the candidate has
MatchedNames(c, i) ==
    {c.required_type_names[k] : k \in MatchedPositions(c, i)}

\* the first name of the candidate's own list that is an inferred category
FirstOwnMatch(c, i) ==
    LET own == OwnTypes(c, i)
        j   == CHOOSE x \in 1..Len(own) :
                   /\ own[x] \in MatchedNames(c, i)
                   /\ \A y \in 1..(x - 1) : own[y] \notin MatchedNames(c, i)
    IN  own[j]

\* the names of the buckets that hold the candidate
BucketNamesOf(c, i) == {c.ranked_lists[b].name : b \in BucketsOf(c, i)}

\* C13 (as claimed): a candidate whose test_type contains more than one
\* inferred category is placed in the bucket of the first category of its
\* own type list that is an inferred category.
C13_OwnOrderDecides ==
    Ranked =>
        \A i \in 1..Len(call.search.metas) :
            Cardinality(MatchedNames(call, i)) >= 2
            => BucketNamesOf(call, i) = {FirstOwnMatch(call, i)}

\* C13 (amended): a candidate whose test_type contains more than one
\* inferred category is placed in a bucket, and never in the bucket of a
\* category that comes after another of its categories in the inferred
\* list: the inferred order decides, the order of its own list does not.
C13_InferredOrderDecides ==
    Ranked =>
        \A i \in 1..Len(call.search.metas) :
            Cardinality(MatchedNames(call, i)) >= 2
            => /\ BucketNamesOf(call, i) # {}
               /\ \A n1, n2 \in MatchedNames(call, i) :
                      FirstPosition(call, n1) < FirstPosition(call, n2)
                      => n2 \notin BucketNamesOf(call, i)

\* C13 witness: a candidate with two inferred categories is in the bucket of
\* one that is not the first of its own list
C13_Witness ==
    /\ Ranked
    /\ \E i \in 1..Len(call.search.metas) :
          /\ Cardinality(MatchedNames(call, i)) >= 2
          /\ BucketNamesOf(call, i) # {}
          /\ FirstOwnMatch(call, i) \notin BucketNamesOf(call, i)

NoComma(list) == \A j \in 1..Len(list) : "," \notin Range(list[j])

Trimmed(list) == \A j \in 1..Len(list) : Strip(list[j]) = list[j]

\* line 154 has been applied to the one record of the index
Normalized == call.stage = "normalized"

\* every record of the output carries, as a list of trimmed names, the list
\* of TypeLists that was joined into the str the search returned for it
OutputCarriesIngestedList ==
    Finished =>
        \A k \in 1..Len(call.final_recommendations) :
            LET ref == call.final_recommendations[k]
            IN  /\ call.value[k].test_type.ty = "list"
                /\ Trimmed(call.value[k].test_type.l)
                /\ \A list \in TypeLists :
                       Join(CommaSpace, list) = call.search.metas[ref].test_type.s
                       => call.value[k].test_type.l = list

====
